---------------------------- MODULE Spec2Model ----------------------------
(***************************************************************************)
(* The websocket runner daemon of cmd/damon.go: runDaemon's connect / read *)
(* loop, handleMessage / handleVersion1's dispatch, and the goroutine that *)
(* handleVersion1 launches for a "push" build.                             *)
(*                                                                         *)
(* The daemon is one control flow whose position is pc.  The environment   *)
(* is the ticker, the operator (signals, the context), the server (what a  *)
(* read returns, whether a write succeeds) and the workload run by         *)
(* runTask.                                                                *)
(***************************************************************************)
EXTENDS Integers, Sequences, FiniteSets, TLC

----------------------------------------------------------------------------
(* Bounds of the model *)

\* successful dials in one run of runDaemon
MaxConns == 2

\* executions launched in one run of runDaemon
MaxTasks == 2

\* largest configured capacity considered
MaxCapacity == 2

----------------------------------------------------------------------------
(* Program constants *)

MsgTypeRegister == 1
MsgTypeError == 2
MsgTypeRequestBuild == 3
MsgTypeIdle == 4
MsgTypeBuildResult == 5

\* failedCnt > 60
FailThreshold == 60

\* the nil *websocket.Conn
NULL == 0

\* a nil error
NilErr == "<nil>"

\* RunnerUUID of the Register message the daemon sends
OwnUUID == "111111"

----------------------------------------------------------------------------
(* Inputs *)

Versions == {1, 2}

\* 0 and 6 are outside the defined types
Types == 0..6

RunnerUUIDs == {"R1", OwnUUID}

BuildUUIDs == {"B1", "B2"}

EventNames == {"push", "deploy"}

\* what runTask can return
TaskErrs == {NilErr, "step 2 failed"}

\* errors of conn.ReadMessage, by the classes runDaemon tells apart
ReadErrs == {"timeout", "io", "abnormal", "normal"}

\* the zero Message / bytes that do not unmarshal
NoMsg ==
    [wellformed |-> FALSE, version |-> 0, type |-> 0, runnerUUID |-> "",
     buildUUID |-> "", eventName |-> ""]

\* a well-formed payload
Payload(v, t, r, b, e) ==
    [wellformed |-> TRUE, version |-> v, type |-> t, runnerUUID |-> r,
     buildUUID |-> b, eventName |-> e]

\* payloads a read can deliver: one that json.Unmarshal rejects, the
\* version-1 messages (buildUUID and eventName are set on RequestBuild only)
\* and, for every type, one message of each other version
Inbound ==
    {NoMsg}
    \cup { Payload(1, t, r, "", "") :
             t \in Types \ {MsgTypeRequestBuild}, r \in RunnerUUIDs }
    \cup { Payload(1, MsgTypeRequestBuild, r, b, e) :
             r \in RunnerUUIDs, b \in BuildUUIDs, e \in EventNames }
    \cup { Payload(v, t, "R1", IF t = MsgTypeRequestBuild THEN "B1" ELSE "",
                   IF t = MsgTypeRequestBuild THEN "push" ELSE "") :
             v \in Versions \ {1}, t \in Types }

----------------------------------------------------------------------------
VARIABLES
    pc,         \* position of runDaemon's control flow
    conn,       \* the transport handle: NULL or the number of the connection
    nconn,      \* connections dialled so far
    closed,     \* connections on which conn.Close() was called
    closeSent,  \* connections on which a close frame was written
    tick,       \* a tick is waiting in ticker.C
    sigs,       \* signals waiting in the sigs channel (capacity 1)
    ctxErr,     \* ctx.Err() of runDaemon's context
    failedCnt,  \* failedCnt
    rerr,       \* err of the last conn.ReadMessage
    msg,        \* the last payload read
    herr,       \* what handleMessage returned for msg ("none": not returned)
    written,    \* writes attempted on the transport since the last read or dial
    launched,   \* executions launched for msg
    cur,        \* the execution launched for msg (0: none)
    derr,       \* the err received from done for msg
    tasks,      \* the executions launched so far
    ret,        \* the return statement runDaemon left by
    result,     \* runDaemon's result
    dialsThisTick, \* dials since the last tick was taken from ticker.C
    ppc,        \* position of the production runDaemon ("off": not run)
    labels,     \* cfg.Runner.Labels
    cfgLoaded,  \* config.FromEnviron returned a configuration
    needsDocker, \* needsDocker
    engineStarted, \* engine.Start was called
    engineUp,   \* engine.Start returned no error
    handlerUp,  \* artifactcache.NewHandler returned a handler
    polled,     \* poller.Poll was called
    pexit       \* how the production runDaemon ended

\* the state of the websocket daemon
wvars ==
    <<pc, conn, nconn, closed, closeSent, tick, sigs, ctxErr, failedCnt, rerr,
      msg, herr, written, launched, cur, derr, tasks, ret, result,
      dialsThisTick>>

\* the state of the production daemon's startup
pvars ==
    <<ppc, labels, cfgLoaded, needsDocker, engineStarted, engineUp, handlerUp,
      polled, pexit>>

vars == <<wvars, pvars>>

----------------------------------------------------------------------------
(* Messages the daemon writes *)

Message(t, r, b, code, content) ==
    [version |-> 1, type |-> t, runnerUUID |-> r, buildUUID |-> b,
     errCode |-> code, errContent |-> content]

RegisterMsg == Message(MsgTypeRegister, OwnUUID, "", 0, "")

Reply_hardcoded(m) == Message(MsgTypeRequestBuild, OwnUUID, "", 0, "")

\* the reply to Register, Error and Idle
Reply(m) == Message(MsgTypeRequestBuild, m.runnerUUID, "", 0, "")

BuildResult_noerr(m, e) ==
    Message(MsgTypeBuildResult, m.runnerUUID, m.buildUUID, 0, "")

\* the result written when the execution's completion e is received
BuildResult(m, e) ==
    IF e # NilErr
    THEN Message(MsgTypeBuildResult, m.runnerUUID, m.buildUUID, 1, e)
    ELSE Message(MsgTypeBuildResult, m.runnerUUID, m.buildUUID, 0, "")

\* a write attempt and whether it succeeded
Write(m, ok) == [m |-> m, ok |-> ok]

WriteErr(ok) == IF ok THEN NilErr ELSE "write"

----------------------------------------------------------------------------
(* Dispatch *)

\* json.Unmarshal followed by the switch on msg.Version
Decode(m) ==
    IF ~m.wellformed THEN "unmarshal"
    ELSE IF m.version # 1 THEN "version"
    ELSE NilErr

Kind_lenient(m) ==
    IF m.type = MsgTypeRequestBuild
    THEN IF m.eventName = "push" THEN "push" ELSE "event"
    ELSE "reply"

\* the case of handleVersion1's switches that m takes
Kind(m) ==
    IF m.type \in {MsgTypeRegister, MsgTypeError, MsgTypeIdle} THEN "reply"
    ELSE IF m.type = MsgTypeRequestBuild
         THEN IF m.eventName = "push" THEN "push" ELSE "event"
         ELSE "type"

----------------------------------------------------------------------------
WInit ==
    /\ pc = "select"
    /\ conn = NULL
    /\ nconn = 0
    /\ closed = {}
    /\ closeSent = {}
    /\ tick = FALSE
    /\ sigs = 0
    /\ ctxErr = NilErr
    /\ failedCnt = 0
    /\ rerr = NilErr
    /\ msg = NoMsg
    /\ herr = "none"
    /\ written = <<>>
    /\ launched = 0
    /\ cur = 0
    /\ derr = NilErr
    /\ tasks = <<>>
    /\ ret = "none"
    /\ result = "none"
    /\ dialsThisTick = 0

\* the production daemon is not run
POff ==
    /\ ppc = "off"
    /\ labels = <<>>
    /\ cfgLoaded = FALSE
    /\ needsDocker = FALSE
    /\ engineStarted = FALSE
    /\ engineUp = FALSE
    /\ handlerUp = FALSE
    /\ polled = FALSE
    /\ pexit = "none"

Init == WInit /\ POff

Running == pc # "returned"

----------------------------------------------------------------------------
(* The environment *)

\* the ticker puts a tick in ticker.C (dropped when one is waiting)
Tick ==
    /\ Running
    /\ ~tick
    /\ tick' = TRUE
    /\ UNCHANGED <<pc, conn, nconn, closed, closeSent, sigs, ctxErr, failedCnt,
                   rerr, msg, herr, written, launched, cur, tasks, ret, result,
                   dialsThisTick, derr, pvars>>

\* SIGINT / SIGTERM: signal.Notify sends without blocking on sigs
Signal ==
    /\ Running
    /\ sigs = 0
    /\ sigs' = 1
    /\ UNCHANGED <<pc, conn, nconn, closed, closeSent, tick, ctxErr, failedCnt,
                   rerr, msg, herr, written, launched, cur, tasks, ret, result,
                   dialsThisTick, derr, pvars>>

\* runDaemon's context ends
CtxEnd ==
    /\ Running
    /\ ctxErr = NilErr
    /\ ctxErr' \in {"Canceled", "DeadlineExceeded"}
    /\ UNCHANGED <<pc, conn, nconn, closed, closeSent, tick, sigs, failedCnt,
                   rerr, msg, herr, written, launched, cur, tasks, ret, result,
                   dialsThisTick, derr, pvars>>

TaskReturn_writes ==
    /\ Running
    /\ conn # NULL
    /\ \E i \in 1..Len(tasks), e \in TaskErrs :
        /\ tasks[i].state = "running"
        /\ tasks' = [tasks EXCEPT ![i].state = "done", ![i].err = NilErr]
        /\ written' = Append(written, Write(BuildResult(msg, e), TRUE))
    /\ UNCHANGED <<pc, conn, nconn, closed, closeSent, tick, sigs, ctxErr,
                   failedCnt, rerr, msg, herr, launched, cur, ret, result,
                   dialsThisTick, derr, pvars>>

\* runTask returns e in the goroutine, which then blocks on done <- e
TaskReturn ==
    /\ Running
    /\ \E i \in 1..Len(tasks), e \in TaskErrs :
        /\ tasks[i].state = "running"
        /\ tasks' = [tasks EXCEPT ![i].state = "sending", ![i].err = e]
    /\ UNCHANGED <<pc, conn, nconn, closed, closeSent, tick, sigs, ctxErr,
                   failedCnt, rerr, msg, herr, written, launched, cur, ret,
                   result, dialsThisTick, derr, pvars>>

\* the hour of context.WithTimeout passes before cancel() was called
TaskDeadline ==
    /\ Running
    /\ \E i \in 1..Len(tasks) :
        /\ tasks[i].ctx = "live"
        /\ tasks' = [tasks EXCEPT ![i].ctx = "deadline"]
    /\ UNCHANGED <<pc, conn, nconn, closed, closeSent, tick, sigs, ctxErr,
                   failedCnt, rerr, msg, herr, written, launched, cur, ret,
                   result, dialsThisTick, derr, pvars>>

----------------------------------------------------------------------------
(* runDaemon: the outer select *)

\* case <-sigs
SelectSig ==
    /\ pc = "select"
    /\ sigs = 1
    /\ sigs' = 0
    /\ pc' = "returned"
    /\ ret' = "sig_outer"
    /\ result' = NilErr
    /\ UNCHANGED <<conn, nconn, closed, closeSent, tick, ctxErr, failedCnt,
                   rerr, msg, herr, written, launched, cur, tasks,
                   dialsThisTick, derr, pvars>>

\* case <-ctx.Done()
SelectCtx ==
    /\ pc = "select"
    /\ ctxErr # NilErr
    /\ closeSent' = IF conn # NULL THEN closeSent \cup {conn} ELSE closeSent
    /\ pc' = "returned"
    /\ ret' = "ctx"
    /\ result' = IF ctxErr = "Canceled" THEN NilErr ELSE ctxErr
    /\ UNCHANGED <<conn, nconn, closed, tick, sigs, ctxErr, failedCnt, rerr,
                   msg, herr, written, launched, cur, tasks, dialsThisTick,
                   derr, pvars>>

\* case <-ticker.C
SelectTick ==
    /\ pc = "select"
    /\ tick
    /\ tick' = FALSE
    /\ dialsThisTick' = 0
    /\ pc' = IF conn = NULL THEN "dial" ELSE "loop"
    /\ UNCHANGED <<conn, nconn, closed, closeSent, sigs, ctxErr, failedCnt,
                   rerr, msg, herr, written, launched, cur, tasks, ret, result,
                   derr, pvars>>

DialCount == IF dialsThisTick < 2 THEN dialsThisTick + 1 ELSE dialsThisTick

\* DialContext succeeds
DialOk ==
    /\ pc = "dial"
    /\ ctxErr = NilErr
    /\ nconn < MaxConns
    /\ nconn' = nconn + 1
    /\ conn' = nconn + 1
    /\ dialsThisTick' = DialCount
    /\ written' = <<>>
    /\ pc' = "register"
    /\ UNCHANGED <<closed, closeSent, tick, sigs, ctxErr, failedCnt, rerr, msg,
                   herr, launched, cur, tasks, ret, result, derr, pvars>>

DialFail_retry ==
    /\ pc = "dial"
    /\ conn' = NULL
    /\ dialsThisTick' = DialCount
    /\ pc' = "dial"
    /\ UNCHANGED <<nconn, closed, closeSent, tick, sigs, ctxErr, failedCnt,
                   rerr, msg, herr, written, launched, cur, tasks, ret, result,
                   derr, pvars>>

DialFail_nobreak ==
    /\ pc = "dial"
    /\ conn' = NULL
    /\ dialsThisTick' = DialCount
    /\ pc' = "loop"
    /\ UNCHANGED <<nconn, closed, closeSent, tick, sigs, ctxErr, failedCnt,
                   rerr, msg, herr, written, launched, cur, tasks, ret, result,
                   derr, pvars>>

\* DialContext fails: conn is nil again, break
DialFail ==
    /\ pc = "dial"
    /\ conn' = NULL
    /\ dialsThisTick' = DialCount
    /\ pc' = "select"
    /\ UNCHANGED <<nconn, closed, closeSent, tick, sigs, ctxErr, failedCnt,
                   rerr, msg, herr, written, launched, cur, tasks, ret, result,
                   derr, pvars>>

\* the Register message is written
RegisterOk ==
    /\ pc = "register"
    /\ written' = <<Write(RegisterMsg, TRUE)>>
    /\ pc' = "loop"
    /\ UNCHANGED <<conn, nconn, closed, closeSent, tick, sigs, ctxErr,
                   failedCnt, rerr, msg, herr, launched, cur, tasks, ret,
                   result, dialsThisTick, derr, pvars>>

RegisterFail_keep ==
    /\ pc = "register"
    /\ written' = <<Write(RegisterMsg, FALSE)>>
    /\ pc' = "loop"
    /\ UNCHANGED <<conn, nconn, closed, closeSent, tick, sigs, ctxErr,
                   failedCnt, rerr, msg, herr, launched, cur, tasks, ret,
                   result, dialsThisTick, derr, pvars>>

\* the write of the Register message fails: Close, conn = nil, break
RegisterFail ==
    /\ pc = "register"
    /\ written' = <<Write(RegisterMsg, FALSE)>>
    /\ closed' = closed \cup {conn}
    /\ conn' = NULL
    /\ pc' = "select"
    /\ UNCHANGED <<nconn, closeSent, tick, sigs, ctxErr, failedCnt, rerr, msg,
                   herr, launched, cur, tasks, ret, result, dialsThisTick,
                   derr, pvars>>

----------------------------------------------------------------------------
(* runDaemon: the read loop *)

\* select { case <-sigs: return nil
LoopSig ==
    /\ pc = "loop"
    /\ sigs = 1
    /\ sigs' = 0
    /\ pc' = "returned"
    /\ ret' = "sig_inner"
    /\ result' = NilErr
    /\ UNCHANGED <<conn, nconn, closed, closeSent, tick, ctxErr, failedCnt,
                   rerr, msg, herr, written, launched, cur, tasks,
                   dialsThisTick, derr, pvars>>

\* default: }, SetReadDeadline, SetPongHandler, and ReadMessage is entered
LoopRead ==
    /\ pc = "loop"
    /\ sigs = 0
    /\ pc' = "read"
    /\ UNCHANGED <<conn, nconn, closed, closeSent, tick, sigs, ctxErr,
                   failedCnt, rerr, msg, herr, written, launched, cur, tasks,
                   ret, result, dialsThisTick, derr, pvars>>

\* ReadMessage returns a payload
ReadMsg ==
    /\ pc = "read"
    /\ msg' \in Inbound
    /\ rerr' = NilErr
    /\ herr' = "none"
    /\ written' = <<>>
    /\ launched' = 0
    /\ cur' = 0
    /\ derr' = NilErr
    /\ pc' = "handle"
    /\ UNCHANGED <<conn, nconn, closed, closeSent, tick, sigs, ctxErr,
                   failedCnt, tasks, ret, result, dialsThisTick, pvars>>

\* ReadMessage returns an error
ReadErr ==
    /\ pc = "read"
    /\ \E e \in ReadErrs :
        LET closedByPeer == e \in {"abnormal", "normal"}
            conn1 == IF closedByPeer THEN NULL ELSE conn
            closed1 == IF closedByPeer THEN closed \cup {conn} ELSE closed
            cnt1 == failedCnt + 1
        IN  /\ rerr' = e
            /\ failedCnt' = IF cnt1 > FailThreshold THEN 0 ELSE cnt1
            /\ conn' = IF cnt1 > FailThreshold THEN NULL ELSE conn1
            /\ closed' = IF cnt1 > FailThreshold /\ conn1 # NULL
                         THEN closed1 \cup {conn1} ELSE closed1
    /\ pc' = "returned"
    /\ ret' = "read"
    /\ result' = NilErr
    /\ UNCHANGED <<nconn, closeSent, tick, sigs, ctxErr, msg, herr, written,
                   launched, cur, tasks, dialsThisTick, derr, pvars>>

----------------------------------------------------------------------------
(* handleMessage and handleVersion1 *)

HandleBad_teardown ==
    /\ pc = "handle"
    /\ Decode(msg) # NilErr
    /\ herr' = Decode(msg)
    /\ closed' = closed \cup {conn}
    /\ conn' = NULL
    /\ pc' = "select"
    /\ UNCHANGED <<nconn, closeSent, tick, sigs, ctxErr, failedCnt, rerr, msg,
                   written, launched, cur, tasks, ret, result, dialsThisTick,
                   derr, pvars>>

\* the payload does not unmarshal, or its version is not 1
HandleBad ==
    /\ pc = "handle"
    /\ Decode(msg) # NilErr
    /\ herr' = Decode(msg)
    /\ pc' = "loop"
    /\ UNCHANGED <<conn, nconn, closed, closeSent, tick, sigs, ctxErr,
                   failedCnt, rerr, msg, written, launched, cur, tasks, ret,
                   result, dialsThisTick, derr, pvars>>

HandleReply_retry ==
    /\ pc = "handle"
    /\ Decode(msg) = NilErr
    /\ Kind(msg) = "reply"
    /\ \E ok \in BOOLEAN :
        /\ written' = IF ok THEN Append(written, Write(Reply(msg), TRUE))
                      ELSE written \o <<Write(Reply(msg), FALSE),
                                        Write(Reply(msg), FALSE)>>
        /\ herr' = WriteErr(ok)
    /\ pc' = "loop"
    /\ UNCHANGED <<conn, nconn, closed, closeSent, tick, sigs, ctxErr,
                   failedCnt, rerr, msg, launched, cur, tasks, ret, result,
                   dialsThisTick, derr, pvars>>

\* case MsgTypeRegister, MsgTypeError, MsgTypeIdle: return conn.WriteJSON(..)
HandleReply ==
    /\ pc = "handle"
    /\ Decode(msg) = NilErr
    /\ Kind(msg) = "reply"
    /\ \E ok \in BOOLEAN :
        /\ written' = Append(written, Write(Reply(msg), ok))
        /\ herr' = WriteErr(ok)
    /\ pc' = "loop"
    /\ UNCHANGED <<conn, nconn, closed, closeSent, tick, sigs, ctxErr,
                   failedCnt, rerr, msg, launched, cur, tasks, ret, result,
                   dialsThisTick, derr, pvars>>

\* the two default cases: return fmt.Errorf(..)
HandleUnknown ==
    /\ pc = "handle"
    /\ Decode(msg) = NilErr
    /\ Kind(msg) \in {"event", "type"}
    /\ herr' = Kind(msg)
    /\ pc' = "loop"
    /\ UNCHANGED <<conn, nconn, closed, closeSent, tick, sigs, ctxErr,
                   failedCnt, rerr, msg, written, launched, cur, tasks, ret,
                   result, dialsThisTick, derr, pvars>>

\* case "push": the context, the done channel and the goroutine
HandlePush ==
    /\ pc = "handle"
    /\ Decode(msg) = NilErr
    /\ Kind(msg) = "push"
    /\ Len(tasks) < MaxTasks
    /\ tasks' = Append(tasks, [state |-> "running", ctx |-> "live",
                               err |-> NilErr])
    /\ cur' = Len(tasks) + 1
    /\ launched' = launched + 1
    /\ pc' = "supervise"
    /\ UNCHANGED <<conn, nconn, closed, closeSent, tick, sigs, ctxErr,
                   failedCnt, rerr, msg, herr, written, ret, result,
                   dialsThisTick, derr, pvars>>

\* cancel() on a context that may have passed its deadline already
Cancel(c) == IF c = "live" THEN "canceled" ELSE c

SuperviseSig_nocancel ==
    /\ pc = "supervise"
    /\ sigs = 1
    /\ sigs' = 0
    /\ herr' = NilErr
    /\ pc' = "loop"
    /\ UNCHANGED <<conn, nconn, closed, closeSent, tick, ctxErr, failedCnt,
                   rerr, msg, written, launched, cur, tasks, ret, result,
                   dialsThisTick, derr, pvars>>

\* case <-sigs: cancel(); return nil
SuperviseSig ==
    /\ pc = "supervise"
    /\ sigs = 1
    /\ sigs' = 0
    /\ tasks' = [tasks EXCEPT ![cur].ctx = Cancel(@)]
    /\ herr' = NilErr
    /\ pc' = "loop"
    /\ UNCHANGED <<conn, nconn, closed, closeSent, tick, ctxErr, failedCnt,
                   rerr, msg, written, launched, cur, ret, result,
                   dialsThisTick, derr, pvars>>

\* case err := <-done: return conn.WriteJSON(..); the deferred cancel()
SuperviseDone ==
    /\ pc = "supervise"
    /\ tasks[cur].state = "sending"
    /\ derr' = tasks[cur].err
    /\ tasks' = [tasks EXCEPT ![cur].state = "done", ![cur].err = NilErr,
                              ![cur].ctx = Cancel(@)]
    /\ \E ok \in BOOLEAN :
        /\ written' = Append(written, Write(BuildResult(msg, derr'), ok))
        /\ herr' = WriteErr(ok)
    /\ pc' = "loop"
    /\ UNCHANGED <<conn, nconn, closed, closeSent, tick, sigs, ctxErr,
                   failedCnt, rerr, msg, launched, cur, ret, result,
                   dialsThisTick, pvars>>

----------------------------------------------------------------------------
Next ==
    \/ Tick
    \/ Signal
    \/ CtxEnd
    \/ TaskReturn
    \/ TaskDeadline
    \/ SelectSig
    \/ SelectCtx
    \/ SelectTick
    \/ DialOk
    \/ DialFail
    \/ RegisterOk
    \/ RegisterFail
    \/ LoopSig
    \/ LoopRead
    \/ ReadMsg
    \/ ReadErr
    \/ HandleBad
    \/ HandleReply
    \/ HandleUnknown
    \/ HandlePush
    \/ SuperviseSig
    \/ SuperviseDone

Spec == Init /\ [][Next]_vars

----------------------------------------------------------------------------
(* The production runDaemon: startup up to the call of poller.Poll *)

\* labels are strings, modelled as sequences of characters; "d" stands for
\* the six characters of "docker"
MaxLabels == 2

\* "self-hosted", "ubuntu:host", "ubuntu:docker://node", "docker://node",
\* "ubuntu:xdocker://"
LabelSet ==
    { <<"s">>,
      <<"u", ":", "h">>,
      <<"u", ":", "d", ":", "/", "/", "n">>,
      <<"d", ":", "/", "/", "n">>,
      <<"u", ":", "x", "d", ":", "/", "/">> }

Configs == UNION { [1..n -> LabelSet] : n \in 0..MaxLabels }

DockerPrefix == <<"d", ":", "/", "/">>

\* index of the first ":" of l, 0 when there is none
FirstColon(l) ==
    IF \E i \in 1..Len(l) : l[i] = ":"
    THEN CHOOSE i \in 1..Len(l) :
            l[i] = ":" /\ \A j \in 1..(i - 1) : l[j] # ":"
    ELSE 0

\* strings.SplitN(l, ":", 2)
SplitN2(l) ==
    IF FirstColon(l) = 0 THEN <<l>>
    ELSE <<SubSeq(l, 1, FirstColon(l) - 1),
           SubSeq(l, FirstColon(l) + 1, Len(l))>>

\* strings.HasPrefix
HasPrefix(str, prefix) ==
    Len(str) >= Len(prefix) /\ SubSeq(str, 1, Len(prefix)) = prefix

\* the loop over cfg.Runner.Labels
NeedsDocker(ls) ==
    \E i \in 1..Len(ls) :
        Len(SplitN2(ls[i])) = 2 /\ HasPrefix(SplitN2(ls[i])[2], DockerPrefix)

PInit ==
    /\ WInit
    /\ ppc = "config"
    /\ labels \in Configs
    /\ cfgLoaded = FALSE
    /\ needsDocker = FALSE
    /\ engineStarted = FALSE
    /\ engineUp = FALSE
    /\ handlerUp = FALSE
    /\ polled = FALSE
    /\ pexit = "none"

\* config.FromEnviron succeeds; initLogging
LoadConfigOk ==
    /\ ppc = "config"
    /\ cfgLoaded' = TRUE
    /\ ppc' = "labels"
    /\ UNCHANGED <<labels, needsDocker, engineStarted, engineUp, handlerUp,
                   polled, pexit, wvars>>

\* config.FromEnviron fails: log.Fatalln exits the process
LoadConfigFail ==
    /\ ppc = "config"
    /\ pexit' = "fatal"
    /\ ppc' = "exited"
    /\ UNCHANGED <<labels, cfgLoaded, needsDocker, engineStarted, engineUp,
                   handlerUp, polled, wvars>>

\* require docker if a runner label uses a docker backend
ScanLabels ==
    /\ ppc = "labels"
    /\ needsDocker' = NeedsDocker(labels)
    /\ ppc' = IF needsDocker' THEN "engine" ELSE "handler"
    /\ UNCHANGED <<labels, cfgLoaded, engineStarted, engineUp, handlerUp,
                   polled, pexit, wvars>>

\* engine.Start succeeds
EngineStartOk ==
    /\ ppc = "engine"
    /\ engineStarted' = TRUE
    /\ engineUp' = TRUE
    /\ ppc' = "handler"
    /\ UNCHANGED <<labels, cfgLoaded, needsDocker, handlerUp, polled, pexit,
                   wvars>>

EngineStartFail_continue ==
    /\ ppc = "engine"
    /\ engineStarted' = TRUE
    /\ ppc' = "handler"
    /\ UNCHANGED <<labels, cfgLoaded, needsDocker, engineUp, handlerUp,
                   polled, pexit, wvars>>

\* engine.Start fails: log.Fatalln exits the process
EngineStartFail ==
    /\ ppc = "engine"
    /\ engineStarted' = TRUE
    /\ pexit' = "fatal"
    /\ ppc' = "exited"
    /\ UNCHANGED <<labels, cfgLoaded, needsDocker, engineUp, handlerUp,
                   polled, wvars>>

\* artifactcache.NewHandler succeeds; the client, the runner and the poller
\* are built
NewHandlerOk ==
    /\ ppc = "handler"
    /\ handlerUp' = TRUE
    /\ ppc' = "poll"
    /\ UNCHANGED <<labels, cfgLoaded, needsDocker, engineStarted, engineUp,
                   polled, pexit, wvars>>

\* artifactcache.NewHandler fails: return err
NewHandlerFail ==
    /\ ppc = "handler"
    /\ pexit' = "error"
    /\ ppc' = "exited"
    /\ UNCHANGED <<labels, cfgLoaded, needsDocker, engineStarted, engineUp,
                   handlerUp, polled, wvars>>

\* g.Go(..): poller.Poll(ctx) is called
StartPoll ==
    /\ ppc = "poll"
    /\ polled' = TRUE
    /\ ppc' = "polling"
    /\ UNCHANGED <<labels, cfgLoaded, needsDocker, engineStarted, engineUp,
                   handlerUp, pexit, wvars>>

\* poller.Poll returns, poller.Wait(), g.Wait() gives nil
PollReturn ==
    /\ ppc = "polling"
    /\ pexit' = "nil"
    /\ ppc' = "exited"
    /\ UNCHANGED <<labels, cfgLoaded, needsDocker, engineStarted, engineUp,
                   handlerUp, polled, wvars>>

PNext ==
    \/ LoadConfigOk
    \/ LoadConfigFail
    \/ ScanLabels
    \/ EngineStartOk
    \/ EngineStartFail
    \/ NewHandlerOk
    \/ NewHandlerFail
    \/ StartPoll
    \/ PollReturn

StartupSpec == PInit /\ [][PNext]_vars

TypeOK ==
    /\ pc \in {"select", "dial", "register", "loop", "read", "handle",
               "supervise", "returned"}
    /\ conn \in 0..MaxConns
    /\ nconn \in 0..MaxConns
    /\ closed \subseteq 1..MaxConns
    /\ closeSent \subseteq 1..MaxConns
    /\ tick \in BOOLEAN
    /\ sigs \in 0..1
    /\ failedCnt \in 0..FailThreshold
    /\ msg \in Inbound
    /\ Len(written) <= 1
    /\ launched \in 0..1
    /\ cur \in 0..Len(tasks)
    /\ Len(tasks) <= MaxTasks

----------------------------------------------------------------------------
(* Properties *)

\* msg was dispatched by handleVersion1 and the dispatch has returned
Dispatched == herr # "none" /\ Decode(msg) = NilErr

\* executions launched and not yet returned from runTask
ActiveCount == Cardinality({i \in 1..Len(tasks) : tasks[i].state = "running"})

\* C1: a version-1 Register, Error or Idle message gets exactly one write, a
\* version-1 RequestBuild with the inbound runnerUUID, and starts no execution.
C1_SingleReply ==
    (Dispatched /\ msg.type \in {MsgTypeRegister, MsgTypeError, MsgTypeIdle})
    => /\ Len(written) = 1
       /\ written[1].m = [version |-> 1, type |-> MsgTypeRequestBuild,
                          runnerUUID |-> msg.runnerUUID, buildUUID |-> "",
                          errCode |-> 0, errContent |-> ""]
       /\ launched = 0
       /\ cur = 0

C1_Witness ==
    /\ Dispatched
    /\ msg.type = MsgTypeIdle
    /\ msg.runnerUUID = "R1"
    /\ Len(written) = 1
    /\ pc = "read"

\* C2: when the completion of the execution launched for a push RequestBuild
\* is received, exactly one execution was launched for the message and exactly
\* one BuildResult is written, with the inbound runnerUUID and buildUUID,
\* errCode 0 and no errContent for a nil error, errCode 1 and the error's text
\* otherwise.
C2_BuildResult ==
    \A i \in 1..Len(tasks) :
        (cur = i /\ tasks[i].state = "done")
        => /\ msg.type = MsgTypeRequestBuild /\ msg.eventName = "push"
           /\ launched = 1
           /\ Len(written) = 1
           /\ written[1].m =
                [version |-> 1, type |-> MsgTypeBuildResult,
                 runnerUUID |-> msg.runnerUUID, buildUUID |-> msg.buildUUID,
                 errCode |-> IF derr = NilErr THEN 0 ELSE 1,
                 errContent |-> IF derr = NilErr THEN "" ELSE derr]

C2_Witness ==
    \E i \in 1..Len(tasks) :
        /\ cur = i
        /\ tasks[i].state = "done"
        /\ derr = "step 2 failed"
        /\ msg.runnerUUID = "R1"
        /\ msg.buildUUID = "B1"
        /\ Len(written) = 1
        /\ written[1].m.errCode = 1

\* C3: a version-1 RequestBuild with an unregistered event, an inbound
\* BuildResult and a type outside 1..5 make the dispatch return a protocol
\* error, start no execution and write nothing.
C3_ProtocolError ==
    (Dispatched /\ \/ (msg.type = MsgTypeRequestBuild /\ msg.eventName # "push")
                   \/ msg.type = MsgTypeBuildResult
                   \/ msg.type \notin 1..5)
    => /\ herr \in {"event", "type"}
       /\ written = <<>>
       /\ launched = 0
       /\ cur = 0

C3_Witness ==
    /\ Dispatched
    /\ msg.type = MsgTypeBuildResult
    /\ herr = "type"
    /\ written = <<>>
    /\ pc = "read"

\* C4: for a payload that does not unmarshal or whose version is not 1,
\* handleMessage returns an error, nothing is written, the transport handle
\* is unchanged and not closed, and the daemon is back at the top of the read
\* loop, from where (no signal waiting) it enters the next read.
C4_BadMessageKeepsSession ==
    [][ /\ (pc = "handle" /\ Decode(msg) # NilErr /\ pc' # "handle")
           => /\ herr' \in {"unmarshal", "version"}
              /\ written' = <<>>
              /\ conn' = conn /\ conn' # NULL
              /\ closed' = closed /\ conn' \notin closed'
              /\ closeSent' = closeSent
              /\ pc' = "loop"
        /\ (pc = "loop" /\ herr \in {"unmarshal", "version"} /\ sigs = 0
            /\ pc' # "loop")
           => (pc' = "read" /\ conn' = conn /\ conn' \notin closed') ]_vars

C4_Witness ==
    /\ pc = "read"
    /\ herr = "version"
    /\ msg.version = 2
    /\ written = <<>>
    /\ conn # NULL
    /\ conn \notin closed

\* C5: after a read that returned an abnormal or normal closure the session
\* is disconnected and the daemon loop is still running.
C5_ClosureKeepsRunning ==
    rerr \in {"abnormal", "normal"} => (conn = NULL /\ pc # "returned")

\* C6: runDaemon's loop returns on a signal or on the end of its context
\* only.
C6_ReturnsOnShutdownOnly ==
    pc = "returned" => ret \in {"sig_outer", "sig_inner", "ctx"}

\* C7: the step that takes an operator signal off the sigs channel ends the
\* daemon with a nil result, also while a task is supervised.
C7_SignalEndsDaemon ==
    [][(sigs = 1 /\ sigs' = 0) => (pc' = "returned" /\ result' = NilErr)]_vars

\* C8: a daemon that returned on a signal or on the cancellation of its
\* context while connected has written a close frame on the transport, and
\* its result is nil.
C8_CloseFrameOnShutdown ==
    (/\ pc = "returned"
     /\ ret \in {"sig_outer", "sig_inner"} \/ (ret = "ctx" /\ ctxErr = "Canceled")
     /\ conn # NULL)
    => (conn \in closeSent /\ result = NilErr)

\* C9: whatever capacity N >= 1 is configured, no more than N executions are
\* launched and not yet returned, those the supervisor abandoned included.
C9_CapacityBound ==
    \A N \in 1..MaxCapacity : ActiveCount <= N

\* C10: between two ticks taken from the ticker the daemon dials at most
\* once.
C10_OneDialPerTick ==
    dialsThisTick <= 1

C10_Witness ==
    /\ dialsThisTick = 1
    /\ pc = "select"
    /\ conn = NULL
    /\ nconn = 1
    /\ ~tick

\* the transport the daemon holds is open
ConnOpen == conn # NULL /\ conn \notin closed

\* C12: once the supervisor has returned without receiving the completion of
\* the execution launched for msg (it took a shutdown signal), the execution's
\* context is cancelled, the execution was not waited for, and no BuildResult
\* was written for it.
C12_SignalAbandonsTask ==
    \A i \in 1..Len(tasks) :
        (cur = i /\ pc # "supervise" /\ tasks[i].state # "done")
        => /\ tasks[i].ctx # "live"
           /\ written = <<>>
           /\ herr = NilErr

C12_Witness ==
    \E i \in 1..Len(tasks) :
        /\ cur = i
        /\ pc = "read"
        /\ tasks[i].state = "running"
        /\ tasks[i].ctx = "canceled"
        /\ written = <<>>

\* C13: a supervisor that waits on an execution whose deadline has expired
\* can stop waiting without the execution returning (and without a signal).
C13_DeadlineStopsWaiting ==
    \A i \in 1..Len(tasks) :
        (pc = "supervise" /\ cur = i /\ tasks[i].ctx = "deadline"
         /\ tasks[i].state = "running" /\ sigs = 0)
        => ENABLED (SuperviseDone \/ SuperviseSig)

\* C14: the writes attempted on the transport change only in a step of the
\* daemon loop's own control flow, never in a step of an execution unit, at
\* most one write is attempted per inbound message, and a message is read
\* only from the top of the read loop, after the dispatch of the previous
\* message has returned.
C14_SingleWriterInOrder ==
    [][ /\ (written' # written) => (pc' # pc /\ tasks'
                                     \in {tasks} \cup
                                         {[tasks EXCEPT ![j].state = "done",
                                                        ![j].err = NilErr,
                                                        ![j].ctx = Cancel(@)] :
                                            j \in {cur} \cap (1..Len(tasks))})
        /\ Len(written') <= 1
        /\ (pc' = "read" /\ pc # "read") => pc = "loop"
        /\ (pc' = "handle" /\ pc # "handle") => (pc = "read" /\ herr' = "none")
        /\ (pc = "loop" /\ pc' = "read") => (herr # "none" \/ msg = NoMsg) ]_vars

C14_Witness ==
    /\ pc = "read"
    /\ Len(written) = 1
    /\ written[1].m.type = MsgTypeBuildResult
    /\ \E i \in 1..Len(tasks) : i # cur /\ tasks[i].state = "sending"

\* C15: the first read on a transport is issued with exactly one write made
\* on it, the Register message {version 1, the runner's UUID}; and after a
\* failed Register write the transport is closed, the session is disconnected
\* and the daemon is not in the read loop.
C15_RegisterBeforeRead ==
    /\ (pc \in {"loop", "read"} /\ herr = "none")
       => /\ ConnOpen
          /\ written = <<[m |-> [version |-> 1, type |-> MsgTypeRegister,
                                 runnerUUID |-> OwnUUID, buildUUID |-> "",
                                 errCode |-> 0, errContent |-> ""],
                          ok |-> TRUE]>>
    /\ (Len(written) = 1 /\ written[1].m.type = MsgTypeRegister
        /\ ~written[1].ok)
       => /\ conn = NULL
          /\ nconn \in closed
          /\ pc \in {"select", "dial", "returned"}

C15_Witness ==
    /\ Len(written) = 1
    /\ written[1].m.type = MsgTypeRegister
    /\ ~written[1].ok
    /\ conn = NULL
    /\ pc = "select"

\* C16: after a read that timed out the session is still connected and the
\* daemon is still running.
C16_TimeoutKeepsReading ==
    rerr = "timeout" => (ConnOpen /\ pc # "returned")

\* C17: the step in which a write of a reply or of a BuildResult fails makes
\* that one write attempt only, leaves the transport handle as it is and not
\* closed, and leaves the daemon at the top of its read loop.
C17_WriteFailureDropped ==
    [][(herr' = "write" /\ herr # "write")
       => /\ Len(written') = 1
          /\ ~written'[1].ok
          /\ conn' = conn /\ conn' # NULL
          /\ closed' = closed /\ conn' \notin closed'
          /\ pc' = "loop"]_vars

C17_Witness ==
    /\ herr = "write"
    /\ Len(written) = 1
    /\ written[1].m.type = MsgTypeBuildResult
    /\ ~written[1].ok
    /\ pc = "read"
    /\ ConnOpen

\* C18: at the top of the read loop, in a read and in a dispatch the
\* transport handle is not nil.
C18_ConnNotNilInLoop ==
    pc \in {"loop", "read", "handle", "supervise"} => conn # NULL

C18_Witness ==
    /\ pc = "read"
    /\ conn = 2
    /\ 1 \in closed

\* C19: an execution unit blocked on its send on done has a receiver: its
\* supervisor is still waiting on it.
C19_SendIsReceived ==
    \A i \in 1..Len(tasks) :
        tasks[i].state = "sending" => (pc = "supervise" /\ cur = i)

\* C20: when runDaemon has returned, the transport handle is nil, or the
\* transport was closed or was sent a close frame.
C20_NoOpenTransportOnReturn ==
    pc = "returned" => (conn = NULL \/ conn \in closed \/ conn \in closeSent)

\* some label's part after its first ":" starts with docker://
HasDockerLabel ==
    \E i \in 1..Len(labels) : \E k \in 1..Len(labels[i]) :
        /\ labels[i][k] = ":"
        /\ \A j \in 1..(k - 1) : labels[i][j] # ":"
        /\ Len(labels[i]) >= k + 4
        /\ labels[i][k + 1] = "d"
        /\ labels[i][k + 2] = ":"
        /\ labels[i][k + 3] = "/"
        /\ labels[i][k + 4] = "/"

\* C11: poller.Poll is called only with the configuration loaded, the cache
\* handler created and, when a label has a docker:// backend, the engine
\* started without error; after a fatal or failed startup it is never called;
\* and engine.Start is called only when some label has a docker:// backend.
C11_NoPollAfterFatal ==
    /\ polled => (cfgLoaded /\ handlerUp /\ (HasDockerLabel => engineUp))
    /\ pexit \in {"fatal", "error"} => ~polled
    /\ (ppc \in {"handler", "poll", "polling"} /\ HasDockerLabel) => engineUp
    /\ engineStarted => HasDockerLabel

C11_Witness ==
    /\ ppc = "exited"
    /\ pexit = "fatal"
    /\ HasDockerLabel
    /\ engineStarted
    /\ ~engineUp
    /\ ~polled

============================================================================
